---- MODULE Spec2Model ----
(***************************************************************************)
(* Model of the offline poker session tracker (src/tracker.py):            *)
(* parse_hand -> build_sessions -> build_limits_stats -> build_summary,    *)
(* driven by main.                                                         *)
(*                                                                         *)
(* Representation.                                                         *)
(*  - A raw hand block is a sequence of tokens; a token stands for a       *)
(*    substring one of parse_hand's regular expressions can match ("ts",   *)
(*    "limit", "name", "result", "handid"), a line break ("nl") or other   *)
(*    text ("text").  "First match" is the first token of the kind.        *)
(*  - Python None is the empty sequence <<>>, a present value v is <<v>>.  *)
(*  - A float is an exact rational <<n, d>> in lowest terms with d > 0;    *)
(*    binary rounding error of floats is not modelled.                     *)
(*  - A datetime is <<proleptic ordinal day, second of the day>>; a        *)
(*    timedelta is a number of seconds.                                    *)
(*  - Hand dicts live in heap; lists hold references (indices into heap).  *)
(***************************************************************************)
EXTENDS Integers, Sequences, FiniteSets, TLC

VARIABLES pc, all_raw_hands, hero_name, session_gap_minutes,
          next_raw, heap, hands, stderr, sessions, limits, summary

vars == <<pc, all_raw_hands, hero_name, session_gap_minutes,
          next_raw, heap, hands, stderr, sessions, limits, summary>>

None == <<>>
Some(v) == <<v>>

(***************************************************************************)
(* Exact arithmetic standing for Python floats.                            *)
(***************************************************************************)
Abs(n) == IF n < 0 THEN -n ELSE n

RECURSIVE GCD(_, _)
GCD(a, b) == IF b = 0 THEN a ELSE GCD(b, a % b)

Rat(n, d) ==
    LET s == IF d < 0 THEN -1 ELSE 1
        g == GCD(Abs(n), Abs(d))
    IN  <<(s * n) \div g, (s * d) \div g>>

RZero == <<0, 1>>
RInt(n) == <<n, 1>>
RAdd(a, b) == Rat(a[1] * b[2] + b[1] * a[2], a[2] * b[2])
RMul(a, b) == Rat(a[1] * b[1], a[2] * b[2])
RDiv(a, b) == Rat(a[1] * b[2], a[2] * b[1])
RNeg(a) == <<-a[1], a[2]>>
RPos(a) == a[1] > 0

\* round-half-to-even of n/d to an integer, d > 0 (Python's round)
RoundHalfEven(n, d) ==
    LET q == n \div d
        r == n - q * d
    IN  IF 2 * r < d THEN q
        ELSE IF 2 * r > d THEN q + 1
        ELSE IF q % 2 = 0 THEN q ELSE q + 1

\* round(x, 2)
Round2(x) == Rat(RoundHalfEven(x[1] * 100, x[2]), 100)

RECURSIVE RSum(_)
RSum(s) == IF s = <<>> THEN RZero ELSE RAdd(s[1], RSum(Tail(s)))

RECURSIVE DigitsValue(_)
DigitsValue(ds) ==
    IF ds = <<>> THEN 0 ELSE DigitsValue(SubSeq(ds, 1, Len(ds) - 1)) * 10 + ds[Len(ds)]

RECURSIVE Pow10(_)
Pow10(n) == IF n = 0 THEN 1 ELSE 10 * Pow10(n - 1)

\* float("<sign><whole>.<frac>")
ParseFloat(sign, whole, frac) ==
    LET mag == Rat(DigitsValue(whole) * Pow10(Len(frac)) + DigitsValue(frac), Pow10(Len(frac)))
    IN  IF sign = "-" THEN RNeg(mag) ELSE mag

(***************************************************************************)
(* datetime.strptime(s, "%Y-%m-%d %H:%M:%S")                               *)
(***************************************************************************)
IsLeap(y) == y % 4 = 0 /\ (y % 100 # 0 \/ y % 400 = 0)

DaysInMonth(y, m) ==
    IF m = 2 THEN (IF IsLeap(y) THEN 29 ELSE 28)
    ELSE IF m \in {4, 6, 9, 11} THEN 30 ELSE 31

RECURSIVE DaysBeforeMonth(_, _)
DaysBeforeMonth(y, m) ==
    IF m = 1 THEN 0 ELSE DaysBeforeMonth(y, m - 1) + DaysInMonth(y, m - 1)

DaysBeforeYear(y) ==
    LET p == y - 1 IN p * 365 + (p \div 4) - (p \div 100) + (p \div 400)

\* ValueError unless the fields name a calendar date and a time of day
StrptimeOk(t) ==
    /\ t.y >= 1
    /\ t.mo >= 1 /\ t.mo <= 12
    /\ t.d >= 1 /\ t.d <= DaysInMonth(t.y, t.mo)
    /\ t.h <= 23 /\ t.mi <= 59 /\ t.s <= 59

Strptime(t) ==
    <<DaysBeforeYear(t.y) + DaysBeforeMonth(t.y, t.mo) + t.d,
      (t.h * 60 + t.mi) * 60 + t.s>>

SecondsPerDay == 86400
SecondsPerMinute == 60

\* a - b as a timedelta, in seconds
TimeDiff(a, b) == (a[1] - b[1]) * SecondsPerDay + (a[2] - b[2])
TimeLeq(a, b) == a[1] < b[1] \/ (a[1] = b[1] /\ a[2] <= b[2])
TimeLt(a, b) == a[1] < b[1] \/ (a[1] = b[1] /\ a[2] < b[2])

\* timedelta(minutes = m)
Minutes(m) == m * SecondsPerMinute

(***************************************************************************)
(* Tokens of a raw hand block.                                             *)
(***************************************************************************)
TsTok(y, mo, d, h, mi, s) ==
    [k |-> "ts", y |-> y, mo |-> mo, d |-> d, h |-> h, mi |-> mi, s |-> s]
LimitTok(game, sp, digits) == [k |-> "limit", game |-> game, sp |-> sp, digits |-> digits]
NameTok(text) == [k |-> "name", text |-> text]
ResultTok(verb, sign, whole, frac) ==
    [k |-> "result", verb |-> verb, sign |-> sign, whole |-> whole, frac |-> frac]
HandIdTok(digits) == [k |-> "handid", digits |-> digits]
NlTok == [k |-> "nl"]
TextTok == [k |-> "text"]

\* str.upper() / str.lower() on the words the tokens carry
Upper(w) ==
    CASE w \in {"NL", "nl", "Nl"} -> "NL"
      [] w \in {"PL", "pl", "Pl"} -> "PL"
      [] OTHER -> w
Lower(w) ==
    CASE w \in {"Hero", "HERO", "hero"} -> "hero"
      [] w \in {"Villain", "villain"} -> "villain"
      [] w \in {"won", "WON", "Won"} -> "won"
      [] w \in {"lost", "LOST", "Lost"} -> "lost"
      [] OTHER -> w

\* re.search: index of the first token of the kind, 0 when there is none
FirstOf(raw, kind) ==
    IF \E i \in 1..Len(raw) : raw[i].k = kind
    THEN CHOOSE i \in 1..Len(raw) :
            /\ raw[i].k = kind
            /\ \A j \in 1..(i - 1) : raw[j].k # kind
    ELSE 0

\* hero_pattern.search: <<i, j>> with raw[i] the hero's name (any case) and
\* raw[j] the nearest following won/lost clause on the same line ('.' does
\* not match a line break); the leftmost such i; <<0, 0>> when no match
HeroMatches(raw, hero) ==
    {p \in (1..Len(raw)) \X (1..Len(raw)) :
        /\ p[1] < p[2]
        /\ raw[p[1]].k = "name"
        /\ Lower(raw[p[1]].text) = Lower(hero)
        /\ raw[p[2]].k = "result"
        /\ \A m \in (p[1] + 1)..(p[2] - 1) : raw[m].k \notin {"nl", "result"}}

HeroSearch(raw, hero) ==
    LET ms == HeroMatches(raw, hero)
    IN  IF ms = {} THEN <<0, 0>>
        ELSE CHOOSE p \in ms : \A q \in ms : p[1] <= q[1]

UnknownLimit == <<"unknown", "", <<>>>>
MixedLimit == <<"mixed", "", <<>>>>

\* limit_match.group(0).upper()
LimitLabel(tok) == <<Upper(tok.game), tok.sp, tok.digits>>

\* float(limit_match.group(2)) / 100
BbSize(tok) == Rat(DigitsValue(tok.digits), 100)

\* sign * float(hero_match.group(2))
HeroMoney(tok) ==
    LET v == ParseFloat(tok.sign, tok.whole, tok.frac)
    IN  IF Lower(tok.verb) = "won" THEN v ELSE RNeg(v)

HeroResultBbBug(result_money, bb_size) ==
    IF bb_size # None /\ RPos(bb_size[1]) THEN Some(RMul(result_money, bb_size[1])) ELSE None

\* result_bb: result_money / bb_size when bb_size is truthy and positive
HeroResultBb(result_money, bb_size) ==
    IF bb_size # None /\ RPos(bb_size[1]) THEN Some(RDiv(result_money, bb_size[1])) ELSE None

\* parse_hand(raw_hand, hero_name); addr stands for id(raw_hand).
\* [raised |-> TRUE] is the ValueError of strptime leaving the function.
ParseHand(raw, hero, addr) ==
    LET dm == FirstOf(raw, "ts")
        lm == FirstOf(raw, "limit")
        hm == HeroSearch(raw, hero)
        im == FirstOf(raw, "handid")
        bb_size == IF lm # 0 THEN Some(BbSize(raw[lm])) ELSE None
        result_money == IF hm[2] # 0 THEN HeroMoney(raw[hm[2]]) ELSE RZero
    IN  IF dm # 0 /\ ~StrptimeOk(raw[dm])
        THEN [raised |-> TRUE, value |-> None]
        ELSE [raised |-> FALSE,
              value |-> Some(
                [hand_id |-> IF im # 0 THEN <<"text", raw[im].digits>> ELSE <<"id", <<addr>>>>,
                 datetime |-> IF dm # 0 THEN Some(Strptime(raw[dm])) ELSE None,
                 limit |-> IF lm # 0 THEN LimitLabel(raw[lm]) ELSE UnknownLimit,
                 bb_size |-> bb_size,
                 hero_result_money |-> result_money,
                 hero_result_bb |-> HeroResultBb(result_money, bb_size),
                 raw |-> raw])]

(***************************************************************************)
(* build_sessions                                                          *)
(***************************************************************************)
Range(s) == {s[i] : i \in 1..Len(s)}
TimeOf(hp, r) == hp[r].datetime[1]

\* [h for h in hands if h["datetime"] is not None]
FilterTimed(hs, hp) == SelectSeq(hs, LAMBDA r : hp[r].datetime # None)

RECURSIVE InsertByTime(_, _, _)
InsertByTime(s, r, hp) ==
    IF s = <<>> THEN <<r>>
    ELSE IF TimeLeq(TimeOf(hp, s[1]), TimeOf(hp, r))
         THEN <<s[1]>> \o InsertByTime(Tail(s), r, hp)
         ELSE <<r>> \o s

RECURSIVE SortFrom(_, _, _)
SortFrom(done, rest, hp) ==
    IF rest = <<>> THEN done
    ELSE SortFrom(InsertByTime(done, rest[1], hp), Tail(rest), hp)

NoSort(l, hp) == l

\* list.sort(key = datetime): ascending and stable
SortByTime(l, hp) == SortFrom(<<>>, l, hp)

GapExceededGe(t, prev, gap) == TimeDiff(t, prev) >= gap

\* hand["datetime"] - prev_time > gap
GapExceeded(t, prev, gap) == TimeDiff(t, prev) > gap

\* the loop over the sorted hands; st = [sessions, current, prev_time]
RECURSIVE Walk(_, _, _, _)
Walk(l, st, gap, hp) ==
    IF l = <<>> THEN st
    ELSE LET t == TimeOf(hp, l[1])
             nxt == IF st.prev_time = None
                    THEN [st EXCEPT !.current = <<l[1]>>]
                    ELSE IF GapExceeded(t, st.prev_time[1], gap)
                         THEN [st EXCEPT !.sessions = Append(st.sessions, st.current),
                                         !.current = <<l[1]>>]
                         ELSE [st EXCEPT !.current = Append(st.current, l[1])]
         IN  Walk(Tail(l), [nxt EXCEPT !.prev_time = Some(t)], gap, hp)

NoFlush(sess_list, current) == sess_list

\* if current: sessions.append(current)
FlushLast(sess_list, current) ==
    IF current # <<>> THEN Append(sess_list, current) ELSE sess_list

\* the grouping: a list of lists of hand references
GroupSessions(hs, session_gap, hp) ==
    LET l == SortByTime(FilterTimed(hs, hp), hp)
        st == Walk(l, [sessions |-> <<>>, current |-> <<>>, prev_time |-> None],
                   Minutes(session_gap), hp)
    IN  FlushLast(st.sessions, st.current)

FirstLimit(sess, hp) == hp[sess[1]].limit

\* limits[0] if len(limits) == 1 else "mixed"
SessionLimit(sess, hp) ==
    LET ls == {hp[r].limit : r \in Range(sess)}
    IN  IF Cardinality(ls) = 1 THEN CHOOSE x \in ls : TRUE ELSE MixedLimit

MapSeq(s, Op(_)) == [i \in 1..Len(s) |-> Op(s[i])]

\* [h["hero_result_bb"] for h in hs if h["hero_result_bb"] is not None]
BbResults(hs, hp) ==
    LET present == SelectSeq(hs, LAMBDA r : hp[r].hero_result_bb # None)
    IN  MapSeq(present, LAMBDA r : hp[r].hero_result_bb[1])

MoneyTotal(hs, hp) == RSum(MapSeq(hs, LAMBDA r : hp[r].hero_result_money))

\* (bb_total / n) * 100
Per100(bb_total, n) == RMul(RDiv(bb_total, RInt(n)), RInt(100))

\* one element of result
SessionRecord(idx, sess, hp) ==
    LET start_time == TimeOf(hp, sess[1])
        end_time == TimeOf(hp, sess[Len(sess)])
        hands_count == Len(sess)
        bb_results == BbResults(sess, hp)
        bb_total == IF bb_results # <<>> THEN Some(RSum(bb_results)) ELSE None
        bb_per_100 == IF bb_total # None THEN Some(Per100(bb_total[1], hands_count)) ELSE None
    IN  [session_id |-> idx,
         start_time |-> start_time,
         end_time |-> end_time,
         duration_minutes |-> RoundHalfEven(TimeDiff(end_time, start_time), SecondsPerMinute),
         hands_count |-> hands_count,
         limit |-> SessionLimit(sess, hp),
         total_result_money |-> Round2(MoneyTotal(sess, hp)),
         total_result_bb |-> IF bb_total # None THEN Some(Round2(bb_total[1])) ELSE None,
         bb_per_100 |-> IF bb_per_100 # None THEN Some(Round2(bb_per_100[1])) ELSE None,
         hands |-> sess]

\* build_sessions(hands, session_gap_minutes)
BuildSessions(hs, session_gap, hp) ==
    LET groups == GroupSessions(hs, session_gap, hp)
    IN  [idx \in 1..Len(groups) |-> SessionRecord(idx, groups[idx], hp)]

SortedInPlace(hs, hp) == SortByTime(FilterTimed(hs, hp), hp)

\* the caller's list after build_sessions returns: the comprehension binds the
\* parameter to a new list, and it is the new list that sort() reorders
ArgAfterBuildSessions(hs, hp) == hs

(***************************************************************************)
(* build_limits_stats                                                      *)
(***************************************************************************)
\* position of the key in the insertion-ordered dict, 0 when absent
StatIndex(stats, limit) ==
    IF \E i \in 1..Len(stats) : stats[i].limit = limit
    THEN CHOOSE i \in 1..Len(stats) : stats[i].limit = limit
    ELSE 0

NewStat(limit) ==
    [limit |-> limit, sessions_count |-> 0, hands_count |-> 0,
     total_result_money |-> RZero, total_result_bb |-> RZero]

AddSession(d, sess) ==
    [d EXCEPT !.sessions_count = @ + 1,
              !.hands_count = @ + sess.hands_count,
              !.total_result_money = RAdd(@, sess.total_result_money),
              !.total_result_bb = IF sess.total_result_bb # None
                                  THEN RAdd(@, sess.total_result_bb[1]) ELSE @]

\* the first loop: stats after the sessions ss
RECURSIVE Accumulate(_, _)
Accumulate(ss, stats) ==
    IF ss = <<>> THEN stats
    ELSE LET sess == ss[1]
             known == IF StatIndex(stats, sess.limit) = 0
                      THEN Append(stats, NewStat(sess.limit)) ELSE stats
             i == StatIndex(known, sess.limit)
         IN  IF sess.limit = MixedLimit
             THEN Accumulate(Tail(ss), stats)
             ELSE Accumulate(Tail(ss), [known EXCEPT ![i] = AddSession(known[i], sess)])

StatBb100NotNone(d) ==
    IF d.hands_count > 0 THEN Some(Per100(d.total_result_bb, d.hands_count)) ELSE None

\* bb100: None when the accumulated total is falsy (0.0)
StatBb100(d) ==
    IF d.hands_count > 0
    THEN (IF d.total_result_bb # RZero
          THEN Some(Per100(d.total_result_bb, d.hands_count)) ELSE None)
    ELSE None

WithBb100(d) ==
    LET bb100 == StatBb100(d)
    IN  [limit |-> d.limit, sessions_count |-> d.sessions_count,
         hands_count |-> d.hands_count,
         total_result_money |-> d.total_result_money,
         total_result_bb |-> d.total_result_bb,
         bb_per_100 |-> IF bb100 # None THEN Some(Round2(bb100[1])) ELSE None]

\* build_limits_stats(sessions)
BuildLimitsStats(ss) == MapSeq(Accumulate(ss, <<>>), WithBb100)

(***************************************************************************)
(* build_summary                                                           *)
(***************************************************************************)
\* total_hands = len(hands)
TotalHands(hs) == Len(hs)

FirstTime(ts) == ts[1]

\* min(times) / max(times)
MinTime(ts) == CHOOSE t \in Range(ts) : \A u \in Range(ts) : TimeLeq(t, u)
MaxTime(ts) == CHOOSE t \in Range(ts) : \A u \in Range(ts) : TimeLeq(u, t)

\* build_summary(hands, sessions)
BuildSummary(hs, ss, hp) ==
    IF hs = <<>>
    THEN [total_hands |-> 0, total_sessions |-> 0, total_result_money |-> RZero,
          total_result_bb |-> None, overall_bb_per_100 |-> None,
          first_hand_time |-> None, last_hand_time |-> None]
    ELSE LET total_hands == TotalHands(hs)
             bb_list == BbResults(hs, hp)
             bb_total == IF bb_list # <<>> THEN Some(RSum(bb_list)) ELSE None
             bb_per_100 == IF bb_total # None
                           THEN Some(Per100(bb_total[1], total_hands)) ELSE None
             times == MapSeq(FilterTimed(hs, hp), LAMBDA r : TimeOf(hp, r))
         IN  [total_hands |-> total_hands,
              total_sessions |-> Len(ss),
              total_result_money |-> Round2(MoneyTotal(hs, hp)),
              total_result_bb |-> IF bb_total # None THEN Some(Round2(bb_total[1])) ELSE None,
              overall_bb_per_100 |-> IF bb_per_100 # None THEN Some(Round2(bb_per_100[1])) ELSE None,
              first_hand_time |-> IF times # <<>> THEN Some(MinTime(times)) ELSE None,
              last_hand_time |-> IF times # <<>> THEN Some(MaxTime(times)) ELSE None]

(***************************************************************************)
(* Inputs: the raw blocks read from the files, the hero, the gap.          *)
(***************************************************************************)
MaxBlocks == 3

\* "Hand #1 2024-01-01 10:00:00 NL25 / Hero won 2.50"
BlockA ==
    <<HandIdTok(<<1>>), TsTok(2024, 1, 1, 10, 0, 0), LimitTok("NL", "", <<2, 5>>), NlTok,
      NameTok("Hero"), ResultTok("won", "", <<2>>, <<5, 0>>)>>
\* "Hand #2 2024-01-01 10:20:00 NL25 / Hero: calls, Hero lost 1.00"
BlockB ==
    <<HandIdTok(<<2>>), TsTok(2024, 1, 1, 10, 20, 0), LimitTok("NL", "", <<2, 5>>), NlTok,
      NameTok("Hero"), TextTok, NameTok("Hero"), ResultTok("lost", "", <<1>>, <<0, 0>>)>>
\* "2024-01-01 10:50:00 nl 50 / Villain won 3.00 / HERO LOST 2.50": 30 minutes after BlockB
BlockC ==
    <<TsTok(2024, 1, 1, 10, 50, 0), LimitTok("nl", " ", <<5, 0>>), NlTok,
      NameTok("Villain"), ResultTok("won", "", <<3>>, <<0, 0>>), NlTok,
      NameTok("HERO"), ResultTok("LOST", "", <<2>>, <<5, 0>>)>>
\* "2024-01-01 10:50:01 NL25 Hero / won 1.00": the result is on the next line
BlockD ==
    <<TsTok(2024, 1, 1, 10, 50, 1), LimitTok("NL", "", <<2, 5>>), NameTok("Hero"), NlTok,
      ResultTok("won", "", <<1>>, <<0, 0>>)>>
\* "PL10 Hero won +0.10": no timestamp
BlockE ==
    <<LimitTok("PL", "", <<1, 0>>), NameTok("Hero"), ResultTok("won", "+", <<0>>, <<1, 0>>)>>
\* "2024-13-01 10:00:00 NL25 Hero won 1.00": month 13
BlockF ==
    <<TsTok(2024, 13, 1, 10, 0, 0), LimitTok("NL", "", <<2, 5>>), NameTok("Hero"),
      ResultTok("won", "", <<1>>, <<0, 0>>)>>
\* "2024-01-01 10:00:00 Hero lost 2.50": the time of BlockA, no stake
BlockG ==
    <<TsTok(2024, 1, 1, 10, 0, 0), NameTok("Hero"), ResultTok("lost", "", <<2>>, <<5, 0>>)>>
\* "2024-01-01 11:30:00 NL25 Hero won 1.00 ... 2023-02-29 99:00:00"
BlockH ==
    <<TsTok(2024, 1, 1, 11, 30, 0), LimitTok("NL", "", <<2, 5>>), NameTok("Hero"),
      ResultTok("won", "", <<1>>, <<0, 0>>), TsTok(2023, 2, 29, 99, 0, 0)>>

RawBlocks == {BlockA, BlockB, BlockC, BlockD, BlockE, BlockF, BlockG, BlockH}
HeroNames == {"hero"}
Gaps == {-1, 0, 20, 30}

SeqsUpTo(S, n) == UNION {[1..m -> S] : m \in 0..n}

(***************************************************************************)
(* main                                                                    *)
(***************************************************************************)
Init ==
    /\ pc = "start"
    /\ all_raw_hands \in SeqsUpTo(RawBlocks, MaxBlocks)
    /\ hero_name \in HeroNames
    /\ session_gap_minutes \in Gaps
    /\ next_raw = 1
    /\ heap = <<>>
    /\ hands = <<>>
    /\ stderr = <<>>
    /\ sessions = <<>>
    /\ limits = <<>>
    /\ summary = None

\* if not all_raw_hands: print(...); sys.exit(0)
CheckRawHands ==
    /\ pc = "start"
    /\ pc' = IF all_raw_hands = <<>> THEN "exit" ELSE "parse"
    /\ UNCHANGED <<all_raw_hands, hero_name, session_gap_minutes, next_raw, heap, hands,
                   stderr, sessions, limits, summary>>

AbortOnParseError == "aborted"

\* where control goes after the except clause has printed the error
AfterParseError == "parse"

\* one iteration of "for raw in all_raw_hands: try ... except ..."
ParseNext ==
    /\ pc = "parse"
    /\ next_raw <= Len(all_raw_hands)
    /\ LET r == ParseHand(all_raw_hands[next_raw], hero_name, next_raw)
       IN  IF r.raised
           THEN /\ stderr' = Append(stderr, next_raw)
                /\ pc' = AfterParseError
                /\ UNCHANGED <<heap, hands>>
           ELSE /\ heap' = Append(heap, r.value[1])
                /\ hands' = Append(hands, Len(heap) + 1)
                /\ UNCHANGED <<stderr, pc>>
    /\ next_raw' = next_raw + 1
    /\ UNCHANGED <<all_raw_hands, hero_name, session_gap_minutes, sessions, limits, summary>>

\* the loop is exhausted
ParseDone ==
    /\ pc = "parse"
    /\ next_raw > Len(all_raw_hands)
    /\ pc' = "sessions"
    /\ UNCHANGED <<all_raw_hands, hero_name, session_gap_minutes, next_raw, heap, hands,
                   stderr, sessions, limits, summary>>

\* sessions = build_sessions(hands, args.session_gap_minutes)
RunBuildSessions ==
    /\ pc = "sessions"
    /\ sessions' = BuildSessions(hands, session_gap_minutes, heap)
    /\ hands' = ArgAfterBuildSessions(hands, heap)
    /\ pc' = "limits"
    /\ UNCHANGED <<all_raw_hands, hero_name, session_gap_minutes, next_raw, heap,
                   stderr, limits, summary>>

\* limits = build_limits_stats(sessions)
RunBuildLimitsStats ==
    /\ pc = "limits"
    /\ limits' = BuildLimitsStats(sessions)
    /\ pc' = "summary"
    /\ UNCHANGED <<all_raw_hands, hero_name, session_gap_minutes, next_raw, heap, hands,
                   stderr, sessions, summary>>

\* summary = build_summary(hands, sessions)
RunBuildSummary ==
    /\ pc = "summary"
    /\ summary' = Some(BuildSummary(hands, sessions, heap))
    /\ pc' = "report"
    /\ UNCHANGED <<all_raw_hands, hero_name, session_gap_minutes, next_raw, heap, hands,
                   stderr, sessions, limits>>

\* the reports and exports read summary, sessions and limits
Report ==
    /\ pc = "report"
    /\ pc' = "done"
    /\ UNCHANGED <<all_raw_hands, hero_name, session_gap_minutes, next_raw, heap, hands,
                   stderr, sessions, limits, summary>>

Next ==
    \/ CheckRawHands
    \/ ParseNext
    \/ ParseDone
    \/ RunBuildSessions
    \/ RunBuildLimitsStats
    \/ RunBuildSummary
    \/ Report

Spec == Init /\ [][Next]_vars

(***************************************************************************)
(* Vocabulary of the properties.                                           *)
(***************************************************************************)
SessionsBuilt == pc \in {"limits", "summary", "report", "done"}
LimitsBuilt == pc \in {"summary", "report", "done"}
SummaryBuilt == pc \in {"report", "done"}

HandRefs == Range(hands)
TimedRefs == {r \in HandRefs : heap[r].datetime # None}
UntimedRefs == HandRefs \ TimedRefs
PosIn(s, r) == CHOOSE i \in 1..Len(s) : s[i] = r

SessionsWith(r) == {k \in 1..Len(sessions) : r \in Range(sessions[k].hands)}
SameSession(a, b) == SessionsWith(a) \cap SessionsWith(b) # {}

\* a and b follow each other in time: no timed hand lies strictly between
TimeAdjacent(a, b) ==
    /\ a # b
    /\ TimeLeq(TimeOf(heap, a), TimeOf(heap, b))
    /\ ~\E c \in TimedRefs : /\ TimeLt(TimeOf(heap, a), TimeOf(heap, c))
                             /\ TimeLt(TimeOf(heap, c), TimeOf(heap, b))

GapBetween(a, b) == TimeDiff(TimeOf(heap, b), TimeOf(heap, a))

\* C1: with G >= 0, two timed hands adjacent in time are in the same session
\* exactly when their distance is at most G minutes (a distance of exactly G
\* keeps them together, any larger one splits, equal times stay together).
C1_GapRule ==
    (SessionsBuilt /\ session_gap_minutes >= 0) =>
        \A a, b \in TimedRefs :
            TimeAdjacent(a, b) =>
                (SameSession(a, b) <=> GapBetween(a, b) <= Minutes(session_gap_minutes))

C1_Witness ==
    /\ SessionsBuilt
    /\ session_gap_minutes > 0
    /\ \E a, b \in TimedRefs :
          /\ TimeAdjacent(a, b)
          /\ GapBetween(a, b) = Minutes(session_gap_minutes)
          /\ SameSession(a, b)
    /\ \E a, b \in TimedRefs :
          /\ TimeAdjacent(a, b)
          /\ GapBetween(a, b) > Minutes(session_gap_minutes)
          /\ ~SameSession(a, b)

SessionIdsSequential == \A k \in 1..Len(sessions) : sessions[k].session_id = k

SessionInnerOrder ==
    \A k \in 1..Len(sessions) :
        LET hs == sessions[k].hands
        IN  /\ hs # <<>>
            /\ \A i \in 1..(Len(hs) - 1) :
                  TimeLeq(TimeOf(heap, hs[i]), TimeOf(heap, hs[i + 1]))
            /\ sessions[k].start_time = TimeOf(heap, hs[1])
            /\ sessions[k].end_time = TimeOf(heap, hs[Len(hs)])

SessionsStrictlyApart ==
    \A k \in 1..(Len(sessions) - 1) : TimeLt(sessions[k].end_time, sessions[k + 1].start_time)

SessionsInOrder ==
    \A k \in 1..(Len(sessions) - 1) : TimeLeq(sessions[k].end_time, sessions[k + 1].start_time)

\* C2 as stated: for every threshold, ids are 1..n, each session is in time
\* order with start/end the first/last hand's time, and each session ends
\* strictly before the next one starts.
C2_Original ==
    SessionsBuilt => (SessionIdsSequential /\ SessionInnerOrder /\ SessionsStrictlyApart)

\* C2 amended: the same, with the strict separation of consecutive sessions
\* for thresholds >= 0; for a negative threshold a session ends no later than
\* the next one starts.
C2_SessionsOrdered ==
    SessionsBuilt =>
        /\ SessionIdsSequential
        /\ SessionInnerOrder
        /\ SessionsInOrder
        /\ (session_gap_minutes >= 0 => SessionsStrictlyApart)

C2_Witness ==
    /\ SessionsBuilt
    /\ session_gap_minutes >= 0
    /\ Len(sessions) >= 2
    /\ \E k \in 1..Len(sessions) : Len(sessions[k].hands) >= 2
    /\ \E i, j \in 1..Len(hands) :
          /\ i < j
          /\ {hands[i], hands[j]} \subseteq TimedRefs
          /\ TimeLt(TimeOf(heap, hands[j]), TimeOf(heap, hands[i]))

\* C3: parse_hand never raises: every block the loop has passed has yielded
\* a Hand record and no parse error has been reported.
C3_ParseHandNeverRaises ==
    /\ stderr = <<>>
    /\ pc \in {"parse", "sessions", "limits", "summary", "report", "done"} =>
          Len(heap) = next_raw - 1

Raises(i) == ParseHand(all_raw_hands[i], hero_name, i).raised
GoodBlocks == SelectSeq([i \in 1..Len(all_raw_hands) |-> i], LAMBDA i : ~Raises(i))
BadBlocks == SelectSeq([i \in 1..Len(all_raw_hands) |-> i], Raises)
HandsOfGoodBlocks ==
    MapSeq(GoodBlocks, LAMBDA i : ParseHand(all_raw_hands[i], hero_name, i).value[1])
HandList == MapSeq(hands, LAMBDA r : heap[r])

MainPositions == {"start", "exit", "parse", "sessions", "limits", "summary", "report", "done"}

\* C4: a block on which parse_hand raises is reported and skipped and the run
\* goes on: after the loop the hand list is the Hands of the blocks that did
\* not raise, in their order, the run is never aborted, and at its end
\* the hand list is still that one and sessions, limits and summary have
\* been computed from it.
C4_BatchIsolation ==
    /\ pc \in MainPositions
    /\ pc \in {"sessions", "done"} =>
          /\ HandList = HandsOfGoodBlocks
          /\ stderr = BadBlocks
    /\ pc = "done" =>
          /\ sessions = BuildSessions(hands, session_gap_minutes, heap)
          /\ limits = BuildLimitsStats(sessions)
          /\ summary = Some(BuildSummary(hands, sessions, heap))

C4_Witness ==
    /\ pc = "done"
    /\ \E i, j, k \in 1..Len(all_raw_hands) :
          i < j /\ j < k /\ ~Raises(i) /\ Raises(j) /\ ~Raises(k)
    /\ Len(hands) = 2

SessionLabels(k) == {heap[r].limit : r \in Range(sessions[k].hands)}
NonMixedLabels == {sessions[k].limit : k \in 1..Len(sessions)} \ {MixedLimit}
SessionsLabelled(l) == {k \in 1..Len(sessions) : sessions[k].limit = l}
FirstSessionLabelled(l) ==
    CHOOSE k \in SessionsLabelled(l) : \A m \in SessionsLabelled(l) : k <= m

RECURSIVE HandsCountOver(_)
HandsCountOver(ks) ==
    IF ks = {} THEN 0
    ELSE LET k == CHOOSE x \in ks : TRUE
         IN  sessions[k].hands_count + HandsCountOver(ks \ {k})

\* C5: a session with two or more distinct stake labels is "mixed", one with
\* a single label carries it; the stake statistics hold exactly one entry per
\* non-"mixed" session label, in order of first appearance, counting the
\* sessions and hands of the sessions with exactly that label.
C5_MixedExcluded ==
    /\ SessionsBuilt =>
          \A k \in 1..Len(sessions) :
              /\ Cardinality(SessionLabels(k)) >= 2 => sessions[k].limit = MixedLimit
              /\ Cardinality(SessionLabels(k)) = 1 => SessionLabels(k) = {sessions[k].limit}
    /\ LimitsBuilt =>
          /\ {limits[i].limit : i \in 1..Len(limits)} = NonMixedLabels
          /\ \A i, j \in 1..Len(limits) :
                i < j => /\ limits[i].limit # limits[j].limit
                         /\ FirstSessionLabelled(limits[i].limit)
                               < FirstSessionLabelled(limits[j].limit)
          /\ \A i \in 1..Len(limits) :
                /\ limits[i].sessions_count = Cardinality(SessionsLabelled(limits[i].limit))
                /\ limits[i].hands_count = HandsCountOver(SessionsLabelled(limits[i].limit))

C5_Witness ==
    /\ LimitsBuilt
    /\ \E k \in 1..Len(sessions) :
          sessions[k].limit = MixedLimit /\ Cardinality(SessionLabels(k)) >= 2
    /\ limits # <<>>
    /\ \A i \in 1..Len(limits) : limits[i].limit # MixedLimit

ScenarioC6 ==
    /\ Len(all_raw_hands) = 2
    /\ Range(all_raw_hands) = {BlockA, BlockB}
    /\ session_gap_minutes = 30

ScenarioC6Common ==
    /\ Len(sessions) = 1
    /\ sessions[1].hands_count = 2
    /\ sessions[1].total_result_money = Rat(150, 100)
    /\ \A r \in Range(sessions[1].hands) : heap[r].bb_size = Some(Rat(25, 100))

\* C6 as stated: the two NL25 hands of 10:00:00 (won 2.50) and 10:20:00
\* (lost 1.00) with a gap of 30 minutes give one session of 2 hands, 1.50 in
\* money, big blind 0.25, 2.0 big blinds in total and 100.0 bb/100.
C6_Original ==
    (ScenarioC6 /\ SessionsBuilt) =>
        /\ ScenarioC6Common
        /\ sessions[1].total_result_bb = Some(RInt(2))
        /\ sessions[1].bb_per_100 = Some(RInt(100))

\* C6 amended: the same session, with 10 + (-4) = 6.0 big blinds in total
\* and 300.0 bb/100.
C6_Scenario ==
    (ScenarioC6 /\ SessionsBuilt) =>
        /\ ScenarioC6Common
        /\ sessions[1].total_result_bb = Some(RInt(6))
        /\ sessions[1].bb_per_100 = Some(RInt(300))

C6_Witness == ScenarioC6 /\ pc = "done" /\ Len(sessions) = 1

\* C7: the summary counts every hand, timed or not; first and last time are
\* the least and greatest time of the timed hands; when there are hands and
\* none has a time, there is no session, total_sessions is 0 and both times
\* are absent.
C7_UntimedHands ==
    SummaryBuilt =>
        LET sm == summary[1]
        IN  /\ sm.total_hands = Len(hands)
            /\ TimedRefs # {} =>
                  /\ sm.first_hand_time # None /\ sm.last_hand_time # None
                  /\ \E r \in TimedRefs : TimeOf(heap, r) = sm.first_hand_time[1]
                  /\ \E r \in TimedRefs : TimeOf(heap, r) = sm.last_hand_time[1]
                  /\ \A r \in TimedRefs :
                        /\ TimeLeq(sm.first_hand_time[1], TimeOf(heap, r))
                        /\ TimeLeq(TimeOf(heap, r), sm.last_hand_time[1])
            /\ TimedRefs = {} =>
                  /\ sessions = <<>>
                  /\ sm.total_sessions = 0
                  /\ sm.first_hand_time = None
                  /\ sm.last_hand_time = None

C7_Witness ==
    /\ pc = "done"
    /\ Len(hands) >= 2
    /\ TimedRefs = {}
    /\ summary[1].total_hands = Len(hands)

RECURSIVE Flatten(_)
Flatten(ss) == IF ss = <<>> THEN <<>> ELSE ss[1].hands \o Flatten(Tail(ss))

RECURSIVE SumHandsCount(_)
SumHandsCount(ss) == IF ss = <<>> THEN 0 ELSE ss[1].hands_count + SumHandsCount(Tail(ss))

\* C8: the sessions partition the timed hands: every timed hand is in exactly
\* one session, once; no untimed hand is in any; no session is empty; the
\* hands_count values add up to the number of timed hands; hands of equal
\* time keep their input order.
C8_Partition ==
    SessionsBuilt =>
        LET all == Flatten(sessions)
        IN  /\ Range(all) = TimedRefs
            /\ Len(all) = Cardinality(TimedRefs)
            /\ \A r \in TimedRefs : Cardinality(SessionsWith(r)) = 1
            /\ \A r \in UntimedRefs : SessionsWith(r) = {}
            /\ \A k \in 1..Len(sessions) :
                  /\ sessions[k].hands # <<>>
                  /\ sessions[k].hands_count = Len(sessions[k].hands)
            /\ SumHandsCount(sessions) = Cardinality(TimedRefs)
            /\ \A i, j \in 1..Len(all) :
                  (i < j /\ TimeOf(heap, all[i]) = TimeOf(heap, all[j])) =>
                      PosIn(hands, all[i]) < PosIn(hands, all[j])

C8_Witness ==
    /\ SessionsBuilt
    /\ UntimedRefs # {}
    /\ \E a, b \in TimedRefs : a # b /\ TimeOf(heap, a) = TimeOf(heap, b)
    /\ Len(sessions) >= 1
    /\ Len(sessions[Len(sessions)].hands) = 1

\* C9: build_sessions, build_limits_stats and build_summary leave the
\* caller's hand list and every Hand record as they were, and the stake and
\* summary stages leave the session records as they were.
C9_InputsUntouched ==
    [][/\ pc \in {"sessions", "limits", "summary"} => (hands' = hands /\ heap' = heap)
       /\ pc \in {"limits", "summary"} => sessions' = sessions]_vars

C9_Witness ==
    /\ pc = "done"
    /\ UntimedRefs # {}
    /\ \E i, j \in 1..Len(hands) :
          /\ i < j
          /\ {hands[i], hands[j]} \subseteq TimedRefs
          /\ TimeLt(TimeOf(heap, hands[j]), TimeOf(heap, hands[i]))
    /\ Len(sessions) >= 1

RECURSIVE BbSumFor(_, _)
BbSumFor(ss, l) ==
    IF ss = <<>> THEN RZero
    ELSE IF ss[1].limit = l /\ ss[1].total_result_bb # None
         THEN RAdd(ss[1].total_result_bb[1], BbSumFor(Tail(ss), l))
         ELSE BbSumFor(Tail(ss), l)

StatTotalsAndZeroRule ==
    \A i \in 1..Len(limits) :
        /\ limits[i].total_result_bb = BbSumFor(sessions, limits[i].limit)
        /\ limits[i].bb_per_100 = None <=> limits[i].total_result_bb = RZero

\* C10 as stated: per stake, total_result_bb is the sum of the sessions'
\* present totals, bb_per_100 is absent exactly when that sum is zero, and
\* otherwise equals (total_result_bb / hands_count) * 100.
C10_Original ==
    LimitsBuilt =>
        /\ StatTotalsAndZeroRule
        /\ \A i \in 1..Len(limits) :
              limits[i].total_result_bb # RZero =>
                  limits[i].bb_per_100 =
                      Some(Per100(limits[i].total_result_bb, limits[i].hands_count))

\* C10 amended: the same, with bb_per_100 equal to
\* (total_result_bb / hands_count) * 100 rounded to 2 decimals.
C10_StakeBb100 ==
    LimitsBuilt =>
        /\ StatTotalsAndZeroRule
        /\ \A i \in 1..Len(limits) :
              limits[i].total_result_bb # RZero =>
                  limits[i].bb_per_100 =
                      Some(Round2(Per100(limits[i].total_result_bb, limits[i].hands_count)))

C10_Witness ==
    /\ LimitsBuilt
    /\ \E i \in 1..Len(limits) :
          /\ limits[i].total_result_bb = RZero
          /\ limits[i].bb_per_100 = None
          /\ \E k \in SessionsLabelled(limits[i].limit) :
                sessions[k].total_result_bb # None /\ sessions[k].total_result_bb # Some(RZero)
    /\ \E i \in 1..Len(limits) : limits[i].bb_per_100 # None

====
